---- MODULE Spec2Model ----
(***************************************************************************)
(* Job execution engine of fakturenn: the JobWorker state machine that     *)
(* consumes job.started events, the store rows it writes (Job,             *)
(* ExportHistory), the terminal events it publishes, and the export        *)
(* handlers (LocalStorage, Paheko) with the sinks they write to.           *)
(*                                                                         *)
(* Collaborators are modelled by the way the worker uses them: a database  *)
(* session whose commit either succeeds or raises, a message bus whose     *)
(* publish either succeeds or raises and which redelivers unacknowledged   *)
(* messages, a Source Runner that returns a list of invoices or raises.    *)
(***************************************************************************)
EXTENDS Integers, Sequences, FiniteSets, TLC

(***************************************************************************)
(* Bounds of the model.                                                    *)
(***************************************************************************)
MaxJobs == 1
MaxDeliveries == 2
MaxFaults == 1
MaxInvoices == 1
MaxCalls == 3

Workers == {"w1", "w2"}
Users == {1, 2}
JobIds == 1..MaxJobs

(***************************************************************************)
(* The configuration rows of the store (automations, sources, exports,     *)
(* mappings).  They are not changed by the engine.                         *)
(***************************************************************************)
AutomationTable ==
  << [id |-> 1, user_id |-> 1],
     [id |-> 2, user_id |-> 2],
     [id |-> 3, user_id |-> 1],
     [id |-> 4, user_id |-> 2] >>

SourceTable ==
  << [id |-> 1, automation_id |-> 1, name |-> "Free", active |-> TRUE],
     [id |-> 2, automation_id |-> 1, name |-> "Gmail", active |-> TRUE],
     [id |-> 3, automation_id |-> 1, name |-> "FreeMobile", active |-> FALSE],
     [id |-> 4, automation_id |-> 2, name |-> "Free", active |-> TRUE],
     [id |-> 5, automation_id |-> 3, name |-> "Free", active |-> TRUE] >>

ExportTable ==
  << [id |-> 1, automation_id |-> 1, type |-> "LocalStorage", active |-> TRUE],
     [id |-> 2, automation_id |-> 1, type |-> "Paheko", active |-> TRUE],
     [id |-> 3, automation_id |-> 1, type |-> "LocalStorage", active |-> FALSE],
     [id |-> 4, automation_id |-> 3, type |-> "LocalStorage", active |-> TRUE] >>

MappingTable ==
  << [source_id |-> 1, export_id |-> 2, priority |-> 2],
     [source_id |-> 1, export_id |-> 1, priority |-> 1],
     [source_id |-> 2, export_id |-> 3, priority |-> 1],
     [source_id |-> 2, export_id |-> 1, priority |-> 1],
     [source_id |-> 1, export_id |-> 4, priority |-> 3] >>

AutomationIds == {AutomationTable[i].id : i \in DOMAIN AutomationTable}


(***************************************************************************)
(* Strings.  Dates, months and amounts are strings as in the code; the     *)
(* slicing and parsing the code applies to them is tabulated over the      *)
(* strings that occur in the model.                                        *)
(***************************************************************************)
DateStrings == {"2025-03-15", "2025-10-29", "2025-ab-15", "2025", ""}

\* str.split("-")
SplitDash(d) ==
  CASE d = "2025-03-15" -> << "2025", "03", "15" >>
    [] d = "2025-10-29" -> << "2025", "10", "29" >>
    [] d = "2025-ab-15" -> << "2025", "ab", "15" >>
    [] OTHER -> << d >>

\* len(date_str)
StrLen(d) ==
  CASE d = "2025-03-15" -> 10
    [] d = "2025-10-29" -> 10
    [] d = "2025-ab-15" -> 10
    [] d = "2025" -> 4
    [] OTHER -> 0

\* date_str[:4] and date_str[5:7]
Slice04(d) == IF StrLen(d) >= 4 THEN SplitDash(d)[1] ELSE d
Slice57(d) == IF StrLen(d) >= 7 THEN SplitDash(d)[2] ELSE ""

MonthStrings ==
  << "01", "02", "03", "04", "05", "06", "07", "08", "09", "10", "11", "12" >>

\* the two-digit strings next to the months, which int() parses as well
DigitStrings == << "00" >> \o MonthStrings \o << "13" >>

\* int(month); -1 stands for the ValueError int() raises
MonthInt(m) ==
  IF \E i \in DOMAIN DigitStrings : DigitStrings[i] = m
  THEN (CHOOSE i \in DOMAIN DigitStrings : DigitStrings[i] = m) - 1
  ELSE -1

\* get_quarter with the upper month of each quarter left to the next one
get_quarter_exclusive_bounds(month) ==
  LET month_int == MonthInt(month)
  IN  IF month_int = -1 THEN "ValueError"
      ELSE IF month_int < 3 THEN "Q1"
      ELSE IF month_int < 6 THEN "Q2"
      ELSE IF month_int < 9 THEN "Q3"
      ELSE "Q4"

\* "ValueError" stands for the exception int(month) raises
get_quarter(month) ==
  LET month_int == MonthInt(month)
  IN  IF month_int = -1 THEN "ValueError"
      ELSE IF month_int <= 3 THEN "Q1"
      ELSE IF month_int <= 6 THEN "Q2"
      ELSE IF month_int <= 9 THEN "Q3"
      ELSE "Q4"

FRENCH_MONTHS ==
  << "Janvier", "Fevrier", "Mars", "Avril", "Mai", "Juin", "Juillet", "Aout",
     "Septembre", "Octobre", "Novembre", "Decembre" >>

TEMPLATE_VARIABLES ==
  {"year", "month", "month_name", "quarter", "date", "invoice_id", "source",
   "amount"}

(***************************************************************************)
(* Dictionaries are functions from key strings to strings.  A template is  *)
(* the sequence of its placeholders; rendering yields the sequence of the  *)
(* values, which identifies the rendered string.                           *)
(***************************************************************************)
Raised == << "raised" >>

SetDefault(d, k, v) ==
  IF k \in DOMAIN d THEN d
  ELSE [x \in DOMAIN d \cup {k} |-> IF x = k THEN v ELSE d[x]]

Merge(d, e) ==
  [x \in DOMAIN d \cup DOMAIN e |-> IF x \in DOMAIN e THEN e[x] ELSE d[x]]

\* isinstance(amount, (int, float)): the amounts that are numbers
IsNumber(amount) == amount \in {"0.0", "42.00", "99.50"}

\* a formatting that leaves a placeholder without value as it is written
Format_keeping_placeholders(template, context) ==
  [i \in DOMAIN template |->
     IF template[i] \in DOMAIN context THEN context[template[i]]
     ELSE template[i]]

\* str.format(**context): KeyError when a placeholder has no value
Format(template, context) ==
  IF \A i \in DOMAIN template : template[i] \in DOMAIN context
  THEN [i \in DOMAIN template |-> context[template[i]]]
  ELSE Raised

\* validate_path_template without the test of the variable names
validate_path_template_any_variable(template) == template # << >>

validate_path_template(template) ==
  IF template = << >> THEN FALSE
  ELSE \A i \in DOMAIN template :
         template[i] \in TEMPLATE_VARIABLES
                         \cup {"date", "amount_eur", "source", "filename"}

render_path_template(template, context) ==
  IF template = << >> THEN Raised
  ELSE
    LET c1 == IF "date" \in DOMAIN context /\ StrLen(context["date"]) >= 7
              THEN LET year == Slice04(context["date"])
                       month == Slice57(context["date"])
                       name == IF MonthInt(month) \in DOMAIN FRENCH_MONTHS
                               THEN FRENCH_MONTHS[MonthInt(month)] ELSE month
                   IN  SetDefault(SetDefault(SetDefault(SetDefault(
                         context, "year", year), "month", month),
                         "month_name", name), "quarter", get_quarter(month))
              ELSE context
        c2 == IF "amount_eur" \in DOMAIN c1 /\ IsNumber(c1["amount_eur"])
              THEN SetDefault(c1, "amount", c1["amount_eur"])
              ELSE c1
    IN  IF /\ "date" \in DOMAIN context
           /\ StrLen(context["date"]) >= 7
           /\ get_quarter(Slice57(context["date"])) = "ValueError"
        THEN Raised
        ELSE Format(template, c2)

\* _validate_invoice_data that requires the source file only
validate_invoice_data_file_path_only(invoice_data) ==
  {"file_path"} \subseteq DOMAIN invoice_data

validate_invoice_data(invoice_data) ==
  {"file_path", "invoice_id", "date", "amount_eur"} \subseteq DOMAIN invoice_data

validate_context(context) ==
  {"invoice_id", "date", "amount_eur"} \subseteq DOMAIN context

ExportResult(status, external_reference, error_message) ==
  [status |-> status, external_reference |-> external_reference,
   error_message |-> error_message]

NoReference == << >>


(***************************************************************************)
(* LocalStorageExportHandler.export.  The handler makes no await between   *)
(* its filesystem operations: one call is one step on the destination      *)
(* tree (dirs, files).                                                     *)
(***************************************************************************)
ExistingSourceFiles == {"/tmp/src.pdf"}

\* Path(...).parent
Parent(path) == SubSeq(path, 1, Len(path) - 1)

\* dict.get(key, default)
Get(d, k, default) == IF k \in DOMAIN d THEN d[k] ELSE default

LocalStorageOutcome(result, fdirs, ffiles, copied) ==
  [result |-> result, dirs |-> fdirs, files |-> ffiles, copied |-> copied]

\* export without its except clause: what the body raises reaches the caller
LocalStorageExport_without_except(invoice_data, context, config, fdirs, ffiles) ==
  IF ~ validate_invoice_data(invoice_data)
  THEN LocalStorageOutcome(
         ExportResult("failed", NoReference, "Missing required invoice data fields"),
         fdirs, ffiles, FALSE)
  ELSE IF ~ validate_context(context)
  THEN LocalStorageOutcome(
         ExportResult("failed", NoReference, "Missing required context fields"),
         fdirs, ffiles, FALSE)
  ELSE IF ~ validate_path_template(config.path_template)
  THEN LocalStorageOutcome(
         ExportResult("failed", NoReference, "Unknown variable"),
         fdirs, ffiles, FALSE)
  ELSE
    LET context_for_template ==
          Merge(context, [source |-> Get(invoice_data, "source", "unknown"),
                          filename |-> invoice_data["file_path"]])
        relative_path ==
          render_path_template(config.path_template, context_for_template)
        destination_path == << config.base_path >> \o relative_path
        dirs1 == IF config.create_directories
                 THEN fdirs \cup {Parent(destination_path)} ELSE fdirs
    IN  IF relative_path = Raised
        THEN LocalStorageOutcome(
               ExportResult("raised", NoReference, "Missing template variable"),
               fdirs, ffiles, FALSE)
        ELSE IF invoice_data["file_path"] \notin ExistingSourceFiles
        THEN LocalStorageOutcome(
               ExportResult("failed", NoReference, "Source file not found"),
               dirs1, ffiles, FALSE)
        ELSE IF Parent(destination_path) \notin dirs1
        THEN LocalStorageOutcome(
               ExportResult("raised", NoReference, "No such file or directory"),
               dirs1, ffiles, FALSE)
        ELSE LocalStorageOutcome(
               ExportResult("success", destination_path, ""),
               dirs1, ffiles \cup {destination_path}, TRUE)

LocalStorageExport(invoice_data, context, config, fdirs, ffiles) ==
  IF ~ validate_invoice_data(invoice_data)
  THEN LocalStorageOutcome(
         ExportResult("failed", NoReference, "Missing required invoice data fields"),
         fdirs, ffiles, FALSE)
  ELSE IF ~ validate_context(context)
  THEN LocalStorageOutcome(
         ExportResult("failed", NoReference, "Missing required context fields"),
         fdirs, ffiles, FALSE)
  ELSE IF ~ validate_path_template(config.path_template)
  THEN LocalStorageOutcome(
         ExportResult("failed", NoReference, "Unknown variable"),
         fdirs, ffiles, FALSE)
  ELSE
    LET context_for_template ==
          Merge(context, [source |-> Get(invoice_data, "source", "unknown"),
                          filename |-> invoice_data["file_path"]])
        relative_path ==
          render_path_template(config.path_template, context_for_template)
        destination_path == << config.base_path >> \o relative_path
        dirs1 == IF config.create_directories
                 THEN fdirs \cup {Parent(destination_path)} ELSE fdirs
    IN  IF relative_path = Raised
        THEN LocalStorageOutcome(
               ExportResult("failed", NoReference, "Missing template variable"),
               fdirs, ffiles, FALSE)
        ELSE IF invoice_data["file_path"] \notin ExistingSourceFiles
        THEN LocalStorageOutcome(
               ExportResult("failed", NoReference, "Source file not found"),
               dirs1, ffiles, FALSE)
        ELSE IF Parent(destination_path) \notin dirs1
        THEN LocalStorageOutcome(
               ExportResult("failed", NoReference, "No such file or directory"),
               dirs1, ffiles, FALSE)
        ELSE LocalStorageOutcome(
               ExportResult("success", destination_path, ""),
               dirs1, ffiles \cup {destination_path}, TRUE)

(***************************************************************************)
(* GoogleDriveExportHandler.export.  _init_drive_service is not            *)
(* implemented and returns None: no call gets as far as the drive.         *)
(***************************************************************************)
GoogleDriveExport(invoice_data, context, config) ==
  IF ~ validate_invoice_data(invoice_data)
  THEN ExportResult("failed", NoReference, "Missing required invoice data fields")
  ELSE IF ~ validate_context(context)
  THEN ExportResult("failed", NoReference, "Missing required context fields")
  ELSE IF ~ validate_path_template(config.path_template)
  THEN ExportResult("failed", NoReference, "Unknown variable")
  ELSE ExportResult("failed", NoReference,
                    "Failed to initialize Google Drive service")

(***************************************************************************)
(* PahekoExportHandler.  The handler talks to the accounting sink through  *)
(* three separate requests (accounting years, account journal, create      *)
(* transaction); the operators below are the handler's code around each.   *)
(***************************************************************************)
AccountingYears ==
  << [id |-> 1, start_date |-> "2025-01-01", end_date |-> "2025-12-31"] >>

IdStrings == << "1", "2", "3", "4", "5", "6", "7", "8" >>

\* Everything export does before its first request to the sink: the
\* validations, _init_paheko_client and the rendering of the label.
\* Returns a failed result, or the rendered label to continue with.
PahekoPrepare(invoice_data, context, config, vault_client) ==
  IF ~ validate_invoice_data(invoice_data)
  THEN [done |-> TRUE, label |-> Raised,
        result |-> ExportResult("failed", NoReference,
                                "Missing required invoice data fields")]
  ELSE IF ~ validate_context(context)
  THEN [done |-> TRUE, label |-> Raised,
        result |-> ExportResult("failed", NoReference,
                                "Missing required context fields")]
  ELSE IF ~ vault_client
  THEN [done |-> TRUE, label |-> Raised,
        result |-> ExportResult("failed", NoReference,
                                "Failed to initialize Paheko client")]
  ELSE IF Format(config.label_template, context) = Raised
  THEN [done |-> TRUE, label |-> Raised,
        result |-> ExportResult("failed", NoReference, "KeyError")]
  ELSE [done |-> FALSE, label |-> Format(config.label_template, context),
        result |-> ExportResult("failed", NoReference, "")]

\* datetime.strptime(s, "%Y-%m-%d").date(), as the number yyyymmdd; 0 stands
\* for the ValueError strptime raises
ParseDate(s) ==
  CASE s = "2025-01-01" -> 20250101
    [] s = "2025-03-15" -> 20250315
    [] s = "2025-10-29" -> 20251029
    [] s = "2025-12-31" -> 20251231
    [] OTHER -> 0

\* _get_accounting_year: 0 stands for None
get_accounting_year(date_str, requestFails) ==
  IF requestFails THEN 0
  ELSE IF ParseDate(date_str) = 0 THEN 0
  ELSE LET matching ==
             SelectSeq(AccountingYears,
               LAMBDA y : /\ ParseDate(y.start_date) # 0
                          /\ ParseDate(y.end_date) # 0
                          /\ ParseDate(y.start_date) <= ParseDate(date_str)
                          /\ ParseDate(date_str) <= ParseDate(y.end_date))
       IN  IF matching = << >> THEN 0 ELSE Head(matching).id

\* PahekoClient.get_account_journal: the entries of one account and year
get_account_journal(entries, id_year, code) ==
  {e \in entries : e.id_year = id_year /\ e.debit = code}

\* _check_duplicate
check_duplicate(config, entries, id_year, label, date_str, requestFails) ==
  IF config.debit = "" THEN FALSE
  ELSE IF requestFails THEN FALSE
  ELSE \E e \in get_account_journal(entries, id_year, config.debit) :
         e.date = date_str /\ e.label = label

\* _create_transaction up to the request: can the request be sent at all
CanCreateTransaction(config, amount) ==
  /\ config.debit # ""
  /\ config.credit # ""
  /\ config.paheko_type \in {"EXPENSE", "REVENUE", "TRANSFER", "DEBT", "CREDIT"}
  /\ amount # ""

NullTime == 0

(***************************************************************************)
(* Store queries of JobWorker.                                             *)
(***************************************************************************)
JobStatusCheck == {"pending", "running", "completed", "failed"}

JobExists(js, job_id) == job_id \in DOMAIN js /\ js[job_id].status # "absent"

\* _get_automation without the user_id clause of the query
get_automation_of_any_user(automation_id, user_id) ==
  SelectSeq(AutomationTable, LAMBDA a : a.id = automation_id)

get_automation(automation_id, user_id) ==
  SelectSeq(AutomationTable,
            LAMBDA a : a.id = automation_id /\ a.user_id = user_id)

get_active_sources(automation_id) ==
  SelectSeq(SourceTable, LAMBDA s : s.automation_id = automation_id /\ s.active)

\* _get_active_exports without the automation_id clause of the query
get_active_exports_of_any_automation(automation_id) ==
  SelectSeq(ExportTable, LAMBDA e : e.active)

get_active_exports(automation_id) ==
  SelectSeq(ExportTable, LAMBDA e : e.automation_id = automation_id /\ e.active)

get_all_export_mappings == MappingTable

\* _update_job_status: the row is written whatever status it holds
update_job_status(js, job_id, status, started_at, clock) ==
  IF JobExists(js, job_id)
  THEN [js EXCEPT ![job_id] =
         [@ EXCEPT !.status = status,
                   !.started_at = IF started_at # NullTime THEN started_at ELSE @,
                   !.completed_at = IF status \in {"completed", "failed"}
                                    THEN clock ELSE @]]
  ELSE js

\* _complete_job without the assignment of the status
complete_job_without_status(js, job_id, stats, clock) ==
  IF JobExists(js, job_id)
  THEN [js EXCEPT ![job_id] =
         [@ EXCEPT !.completed_at = clock, !.stats = << stats >>]]
  ELSE js

\* the store write of _complete_job
complete_job(js, job_id, stats, clock) ==
  IF JobExists(js, job_id)
  THEN [js EXCEPT ![job_id] =
         [@ EXCEPT !.status = "completed", !.completed_at = clock,
                   !.stats = << stats >>]]
  ELSE js

\* _fail_job without the assignment of completed_at
fail_job_without_completed_at(js, job_id, error_message, clock) ==
  IF JobExists(js, job_id)
  THEN [js EXCEPT ![job_id] =
         [@ EXCEPT !.status = "failed", !.error_message = error_message]]
  ELSE js

\* the store write of _fail_job
fail_job(js, job_id, error_message, clock) ==
  IF JobExists(js, job_id)
  THEN [js EXCEPT ![job_id] =
         [@ EXCEPT !.status = "failed", !.completed_at = clock,
                   !.error_message = error_message]]
  ELSE js

(***************************************************************************)
(* The Source Runner: what a run can return.                               *)
(***************************************************************************)
InvoicePool ==
  << [invoice_id |-> "INV-1", date |-> "2025-03-15", amount |-> "42.00",
      file_path |-> "/tmp/src.pdf"],
     [invoice_id |-> "INV-2", date |-> "2025", amount |-> "",
      file_path |-> "/tmp/src.pdf"] >>

\* a run returns the first invoices of the provider's list, or raises
RunnerOutcomes ==
  {[raised |-> TRUE, invoices |-> << >>]}
  \cup {[raised |-> FALSE, invoices |-> SubSeq(InvoicePool, 1, n)] :
          n \in 0..(IF MaxInvoices < Len(InvoicePool)
                    THEN MaxInvoices ELSE Len(InvoicePool))}

(***************************************************************************)
(* _execute_workflow, the export loops.                                    *)
(***************************************************************************)
ZeroStats == [sources_executed |-> 0, invoices_extracted |-> 0,
              exports_completed |-> 0, exports_failed |-> 0]

\* the routing with a break after the first mapped export
MappedExportsFirstOnly(source, export_mappings, exports) ==
  LET mapped == SelectSeq(export_mappings, LAMBDA m : m.source_id = source.id)
      found == SelectSeq(mapped,
                 LAMBDA m : \E k \in DOMAIN exports : exports[k].id = m.export_id)
  IN  [k \in DOMAIN found \cap {1} |->
         exports[CHOOSE x \in DOMAIN exports : exports[x].id = found[k].export_id]]

\* the exports one invoice is routed to: the mappings of its source, in the
\* order the query returns them, whose export is among the loaded exports
MappedExports(source, export_mappings, exports) ==
  LET mapped == SelectSeq(export_mappings, LAMBDA m : m.source_id = source.id)
      found == SelectSeq(mapped,
                 LAMBDA m : \E k \in DOMAIN exports : exports[k].id = m.export_id)
  IN  [k \in DOMAIN found |->
         exports[CHOOSE x \in DOMAIN exports : exports[x].id = found[k].export_id]]

RECURSIVE ExportPairs(_, _, _)
ExportPairs(all_invoices, export_mappings, exports) ==
  IF all_invoices = << >> THEN << >>
  ELSE LET first == Head(all_invoices)
           targets == MappedExports(first.source, export_mappings, exports)
       IN  [k \in DOMAIN targets |->
              [invoice |-> first.invoice, source |-> first.source,
               export |-> targets[k]]]
           \o ExportPairs(Tail(all_invoices), export_mappings, exports)

\* building the context raises when invoice.date.split("-")[1] does
BuildContextRaises(invoice) ==
  invoice.date # "" /\ Len(SplitDash(invoice.date)) < 2

\* the context dictionary the worker builds
BuildContext(invoice, source) ==
  [invoice_id |-> invoice.invoice_id,
   date |-> invoice.date,
   amount_eur |-> IF invoice.amount # "" THEN invoice.amount ELSE "0.0",
   month |-> IF invoice.date # "" /\ ~ BuildContextRaises(invoice)
             THEN SplitDash(invoice.date)[2] ELSE "",
   year |-> IF invoice.date # "" THEN SplitDash(invoice.date)[1] ELSE "",
   source |-> source.name]

BuildInvoiceData(invoice) ==
  [file_path |-> invoice.file_path, amount_eur |-> invoice.amount]

ExportConfiguration(export) ==
  IF export.type = "Paheko"
  THEN [label_template |-> << "invoice_id" >>, debit |-> "626",
        credit |-> "512A", paheko_type |-> "EXPENSE"]
  ELSE [base_path |-> "/out",
        path_template |-> << "year", "month", "invoice_id" >>,
        create_directories |-> TRUE]

\* _execute_export: get_export_handler(export.type, export.configuration)
\* builds the Paheko handler without a vault client
execute_export(export, invoice_data, context, fdirs, ffiles) ==
  IF export.type = "Paheko"
  THEN LocalStorageOutcome(
         PahekoPrepare(invoice_data, context, ExportConfiguration(export),
                       FALSE).result,
         fdirs, ffiles, FALSE)
  ELSE LocalStorageExport(invoice_data, context, ExportConfiguration(export),
                          fdirs, ffiles)

\* the counting of one export result in the job's stats
count_result_as_completed(stats, status) ==
  [stats EXCEPT !.exports_completed = @ + 1]

count_result(stats, status) ==
  IF status \in {"success", "duplicate_skipped"}
  THEN [stats EXCEPT !.exports_completed = @ + 1]
  ELSE [stats EXCEPT !.exports_failed = @ + 1]

HistoryRow(job_id, export, status, context, external_reference, error_message) ==
  [job_id |-> job_id, export_id |-> export.id, export_type |-> export.type,
   status |-> status,
   invoice_id |-> IF context = << >> THEN "" ELSE Get(context[1], "invoice_id", ""),
   external_reference |-> external_reference, error_message |-> error_message]

NoJob == [automation_id |-> 0, status |-> "absent", started_at |-> NullTime,
          completed_at |-> NullTime, error_message |-> "", stats |-> << >>]

VARIABLES
  jobs,        \* Job rows of the store, by id (NoJob: no such row)
  history,     \* ExportHistory rows: how many rows there are of each content
  stream,      \* job.started messages of the stream that are not yet acked
  published,   \* number of job.completed / job.failed events published per job
  worker,      \* per worker process: position in handle_job_started and its locals
  now,         \* the clock read by datetime.now
  deliveries,  \* number of deliveries made by the bus
  faults,      \* number of store / bus / sink errors that have occurred
  sourceRuns,  \* number of Source Runner calls made, per job
  handlerRuns, \* number of Export Handler invocations made, per job
  journal,     \* accounting sink: the entries of the journal
  createCalls, \* accounting sink: number of create-transaction requests received
  dirs,        \* filesystem sink: directories of the destination tree
  files,       \* filesystem sink: destination paths that hold a file
  copies,      \* filesystem sink: number of files written to the tree
  succeeded,   \* handler calls that have returned success, by handler and input
  calls,       \* number of handler calls made by the callers
  call,        \* per caller: the handler call in progress or last returned
  cancelResponse, \* per job: the answer to the last DELETE /jobs/{id} request
               \* and the status the request found
  expired,     \* per job: the per-job deadline has elapsed since it was started
  response,    \* per user: the last answer to a GET /jobs or GET /jobs/{id}
               \* request of that user
  bad,         \* messages of the stream that no job.started handler can
               \* process, each with the number of times it was delivered
  arg,         \* the arguments a caller of the path_template functions holds
  ret,         \* what get_quarter and render_path_template returned for them
  job_sources, \* JobCoordinator.job_sources: the sources it tracks per job
  sourceEvents, \* source.execute events that SourceWorker has not yet handled
  exportEvents, \* export.execute events that ExportWorker has not yet handled
  exportOutcomes, \* number of export.completed / export.failed events
               \* published per job
  timeoutTask  \* per job: number of _job_timeout tasks that are sleeping

vars == << jobs, history, stream, published, worker, now, deliveries, faults,
           sourceRuns, handlerRuns, journal, createCalls, dirs, files, copies, succeeded,
           calls, call, cancelResponse, expired, response, bad, arg, ret,
           job_sources, sourceEvents, exportEvents, exportOutcomes,
           timeoutTask >>

pureVars == << arg, ret >>
pipelineVars == << job_sources, sourceEvents, exportEvents, exportOutcomes,
                   timeoutTask >>
adminVars == << cancelResponse, expired, response, bad, pureVars,
                pipelineVars >>
workerVars == << jobs, history, stream, published, worker, now, deliveries,
                 sourceRuns, handlerRuns, adminVars >>
sinkVars == << journal, createCalls, dirs, files, copies >>
EmptyRows == [r \in {} |-> 0]

\* no caller of the path_template functions
NoArguments == [month |-> "", template |-> << >>, context |-> [k \in {} |-> ""]]
NotCalled == [quarter |-> "not called", rendered |-> << "not called" >>]

\* job_id is not a key of JobCoordinator.job_sources
NotTracked == [tracked |-> FALSE, pending |-> {}]

\* no cancel request has been answered
NoResponse == [code |-> 0, status |-> "none"]

\* no read request of the jobs router has been answered
NoReply == [op |-> "none", code |-> 0, rows |-> {}]

\* session.add(history) and commit
AddRow(rows, row) ==
  IF row \in DOMAIN rows
  THEN [rows EXCEPT ![row] = @ + 1]
  ELSE [r \in DOMAIN rows \cup {row} |-> IF r = row THEN 1 ELSE rows[r]]

NoEvent == [job_id |-> 0, automation_id |-> 0, user_id |-> 0]
NoResult == ExportResult("none", NoReference, "")

IdleWorker ==
  [pc |-> "idle", event |-> NoEvent, started_at |-> NullTime,
   sources |-> << >>, exports |-> << >>, si |-> 1, all_invoices |-> << >>,
   pairs |-> << >>, pi |-> 1, stats |-> ZeroStats, context |-> << >>,
   invoked |-> FALSE, result |-> NoResult, error |-> "",
   failed_sources |-> {}, payload |-> "event"]

NoCall ==
  [pc |-> "idle", handler |-> "none", input |-> 0, label |-> Raised,
   id_year |-> 0, priorSuccess |-> FALSE, entryPresent |-> FALSE,
   guardFailed |-> FALSE, created |-> FALSE, result |-> NoResult]

Callers == {"c1", "c2"}

Init ==
  /\ jobs = [j \in JobIds |-> NoJob]
  /\ history = EmptyRows
  /\ stream = {}
  /\ published = [j \in JobIds |-> [completed |-> 0, failed |-> 0]]
  /\ worker = [w \in Workers |-> IdleWorker]
  /\ now = 0
  /\ deliveries = 0
  /\ faults = 0
  /\ sourceRuns = [j \in JobIds |-> 0]
  /\ handlerRuns = [j \in JobIds |-> 0]
  /\ journal = {}
  /\ createCalls = 0
  /\ dirs = {}
  /\ files = {}
  /\ copies = 0
  /\ succeeded = {}
  /\ calls = 0
  /\ call = [c \in Callers |-> NoCall]
  /\ cancelResponse = [j \in JobIds |-> NoResponse]
  /\ expired = [j \in JobIds |-> FALSE]
  /\ response = [u \in Users |-> NoReply]
  /\ bad = {}
  /\ arg = NoArguments
  /\ ret = NotCalled
  /\ job_sources = [j \in JobIds |-> NotTracked]
  /\ sourceEvents = {}
  /\ exportEvents = {}
  /\ exportOutcomes = [j \in JobIds |-> [completed |-> 0, failed |-> 0]]
  /\ timeoutTask = [j \in JobIds |-> 0]

(***************************************************************************)
(* The administration API.                                                 *)
(***************************************************************************)
\* POST /automations/{id}/trigger: inserts the Job row; publishes nothing
trigger_automation(u, a) ==
  /\ get_automation(a, u) # << >>
  /\ \E j \in JobIds :
       /\ ~ JobExists(jobs, j)
       /\ \A k \in JobIds : k < j => JobExists(jobs, k)
       /\ jobs' = [jobs EXCEPT ![j] =
                     [NoJob EXCEPT !.automation_id = a, !.status = "pending"]]
  /\ UNCHANGED << history, stream, published, worker, now, deliveries, faults,
                  sourceRuns, handlerRuns, sinkVars, succeeded, calls, call, adminVars >>

\* DELETE /jobs/{id} for a job of the store: 400 unless the status is
\* pending or running; the commit of status 'cancelled' is subject to the
\* CHECK constraint of the jobs table, whose violation is answered with 500.
\* The current user takes no part in the lookup.
cancel_job(u, j) ==
  /\ JobExists(jobs, j)
  /\ LET accepted == jobs[j].status \in {"pending", "running"}
         stored == accepted /\ "cancelled" \in JobStatusCheck
     IN  /\ jobs' = IF stored THEN [jobs EXCEPT ![j].status = "cancelled"]
                    ELSE jobs
         /\ cancelResponse' =
              [cancelResponse EXCEPT ![j] =
                 [code |-> IF ~ accepted THEN 400
                           ELSE IF stored THEN 204
                           ELSE 500,
                  status |-> jobs[j].status]]
  /\ UNCHANGED << history, stream, published, worker, now, deliveries, faults,
                  sourceRuns, handlerRuns, sinkVars, succeeded, calls, call,
                  expired, response, bad, pureVars,
                  pipelineVars >>

\* the per-job deadline (30 minutes after the job was started) elapses while
\* the job is running: JobWorker arms no timer, nothing of it runs
JobDeadlineExpires(j) ==
  /\ JobExists(jobs, j)
  /\ jobs[j].status = "running"
  /\ ~ expired[j]
  /\ expired' = [expired EXCEPT ![j] = TRUE]
  /\ UNCHANGED << jobs, history, stream, published, worker, now, deliveries,
                  faults, sourceRuns, handlerRuns, sinkVars, succeeded, calls,
                  call, cancelResponse, response, bad, pureVars,
                  pipelineVars >>

(***************************************************************************)
(* The message bus: the jobs stream and its durable consumer.              *)
(***************************************************************************)
\* a publisher puts a job.started event for a job of the store on the stream;
\* the event names the job's automation or an automation that does not exist
PublishJobStarted(j, u, a) ==
  /\ JobExists(jobs, j)
  /\ a \in {jobs[j].automation_id, 0}
  /\ LET e == [job_id |-> j, automation_id |-> a, user_id |-> u]
     IN  /\ \A m \in stream : m.job_id # j
         /\ stream' = stream \cup {e}
  /\ UNCHANGED << jobs, history, published, worker, now, deliveries, faults,
                  sourceRuns, handlerRuns, sinkVars, succeeded, calls, call, adminVars >>

(***************************************************************************)
(* JobWorker.handle_job_started, one action per suspension point.          *)
(***************************************************************************)
\* the message of the stream that refers to job j
MessageOf(j) == CHOOSE m \in stream : m.job_id = j

\* the bus delivers (or redelivers) the unacknowledged message of job j to a
\* worker; msg_handler decodes it and calls handle_job_started
DeliverJobStarted(w, j) ==
  /\ worker[w].pc = "idle"
  /\ \E m \in stream : m.job_id = j
  /\ deliveries < MaxDeliveries
  /\ deliveries' = deliveries + 1
  /\ now' = now + 1
  /\ worker' = [worker EXCEPT ![w] =
                  [IdleWorker EXCEPT !.pc = "update_status",
                                     !.event = MessageOf(j),
                                     !.started_at = now + 1]]
  /\ UNCHANGED << jobs, history, stream, published, faults, sourceRuns,
                  handlerRuns, sinkVars, succeeded, calls, call, adminVars >>

UpdateJobStatus(w) ==
  /\ worker[w].pc = "update_status"
  /\ jobs' = update_job_status(jobs, worker[w].event.job_id, "running",
                               worker[w].started_at, now)
  /\ worker' = [worker EXCEPT ![w].pc = "load"]
  /\ UNCHANGED << history, stream, published, now, deliveries, faults,
                  sourceRuns, handlerRuns, sinkVars, succeeded, calls, call, adminVars >>

LoadConfiguration(w) ==
  /\ worker[w].pc = "load"
  /\ LET e == worker[w].event
         automation == get_automation(e.automation_id, e.user_id)
         sources == get_active_sources(e.automation_id)
         exports == get_active_exports(e.automation_id)
     IN  worker' = [worker EXCEPT ![w] =
           IF automation = << >>
           THEN [@ EXCEPT !.pc = "fail", !.error = "Automation not found"]
           ELSE IF sources = << >>
           THEN [@ EXCEPT !.pc = "fail",
                          !.error = "No sources configured for automation"]
           ELSE IF exports = << >>
           THEN [@ EXCEPT !.pc = "fail",
                          !.error = "No exports configured for automation"]
           ELSE [@ EXCEPT !.pc = "extract", !.sources = sources,
                          !.exports = exports, !.si = 1]]
  /\ UNCHANGED << jobs, history, stream, published, now, deliveries, faults,
                  sourceRuns, handlerRuns, sinkVars, succeeded, calls, call, adminVars >>

\* one iteration of the loop over the sources
ExtractInvoices(w) ==
  /\ worker[w].pc = "extract"
  /\ \E outcome \in RunnerOutcomes :
       LET me == worker[w]
           source == me.sources[me.si]
           extracted == [k \in DOMAIN outcome.invoices |->
                           [invoice |-> outcome.invoices[k], source |-> source]]
           all_invoices == me.all_invoices \o extracted
           stats == IF outcome.raised THEN me.stats
                    ELSE [me.stats EXCEPT
                            !.sources_executed = @ + 1,
                            !.invoices_extracted = @ + Len(outcome.invoices)]
           last == me.si = Len(me.sources)
       IN  /\ worker' = [worker EXCEPT ![w] =
                [@ EXCEPT !.all_invoices = all_invoices, !.stats = stats,
                          !.si = @ + 1,
                          !.failed_sources =
                             IF outcome.raised THEN @ \cup {source.id} ELSE @,
                          !.pc = IF ~ last THEN "extract"
                                 ELSE IF all_invoices = << >> THEN "complete"
                                 ELSE "mappings"]]
           /\ sourceRuns' = [sourceRuns EXCEPT ![me.event.job_id] = @ + 1]
  /\ UNCHANGED << jobs, history, stream, published, now, deliveries, faults,
                  handlerRuns, sinkVars, succeeded, calls, call, adminVars >>

LoadExportMappings(w) ==
  /\ worker[w].pc = "mappings"
  /\ LET pairs == ExportPairs(worker[w].all_invoices, get_all_export_mappings,
                              worker[w].exports)
     IN  worker' = [worker EXCEPT ![w] =
           [@ EXCEPT !.pairs = pairs, !.pi = 1,
                     !.pc = IF pairs = << >> THEN "complete" ELSE "invoke"]]
  /\ UNCHANGED << jobs, history, stream, published, now, deliveries, faults,
                  sourceRuns, handlerRuns, sinkVars, succeeded, calls, call, adminVars >>

\* one (invoice, export) pair: build the context and call the handler
InvokeExport(w) ==
  /\ worker[w].pc = "invoke"
  /\ LET me == worker[w]
         pair == me.pairs[me.pi]
         context == BuildContext(pair.invoice, pair.source)
         invoice_data == BuildInvoiceData(pair.invoice)
         out == execute_export(pair.export, invoice_data, context, dirs, files)
     IN  IF BuildContextRaises(pair.invoice)
         THEN /\ worker' = [worker EXCEPT ![w] =
                   [@ EXCEPT !.pc = "record", !.invoked = FALSE,
                             !.result = ExportResult("failed", NoReference,
                                                     "IndexError")]]
              /\ UNCHANGED << handlerRuns, dirs, files, copies >>
         ELSE /\ worker' = [worker EXCEPT ![w] =
                   [@ EXCEPT !.pc = "record", !.invoked = TRUE,
                             !.context = << context >>, !.result = out.result]]
              /\ handlerRuns' = [handlerRuns EXCEPT ![me.event.job_id] = @ + 1]
              /\ dirs' = out.dirs
              /\ files' = out.files
              /\ copies' = IF out.copied THEN copies + 1 ELSE copies
  /\ UNCHANGED << jobs, history, stream, published, now, deliveries, faults,
                  sourceRuns, journal, createCalls, succeeded, calls, call, adminVars >>

\* _create_export_history and the counting of the result; an error of the
\* insert is logged and rolled back
RecordExportHistory(w) ==
  /\ worker[w].pc = "record"
  /\ LET me == worker[w]
         pair == me.pairs[me.pi]
         row == HistoryRow(me.event.job_id, pair.export, me.result.status,
                           me.context, me.result.external_reference,
                           me.result.error_message)
         counted == count_result(me.stats, me.result.status)
     IN  /\ \/ history' = AddRow(history, row) /\ UNCHANGED faults
            \/ /\ faults < MaxFaults
               /\ faults' = faults + 1
               /\ UNCHANGED history
         /\ worker' = [worker EXCEPT ![w] =
              [@ EXCEPT !.stats = counted, !.pi = @ + 1,
                        !.pc = IF me.pi = Len(me.pairs) THEN "complete"
                               ELSE "invoke"]]
  /\ UNCHANGED << jobs, stream, published, now, deliveries, sourceRuns,
                  handlerRuns, sinkVars, succeeded, calls, call, adminVars >>

\* _complete_job: the commit or the publish may raise; either is logged
CompleteJob(w) ==
  /\ worker[w].pc = "complete"
  /\ LET job_id == worker[w].event.job_id
     IN  \/ /\ jobs' = complete_job(jobs, job_id, worker[w].stats, now)
            /\ published' = [published EXCEPT ![job_id].completed = @ + 1]
            /\ UNCHANGED faults
         \/ /\ faults < MaxFaults
            /\ faults' = faults + 1
            /\ UNCHANGED << jobs, published >>
         \/ /\ faults < MaxFaults
            /\ faults' = faults + 1
            /\ jobs' = complete_job(jobs, job_id, worker[w].stats, now)
            /\ UNCHANGED published
  /\ worker' = [worker EXCEPT ![w].pc = "ack"]
  /\ UNCHANGED << history, stream, now, deliveries, sourceRuns, handlerRuns,
                  sinkVars, succeeded, calls, call, adminVars >>

\* a _fail_job that lets the error of its commit or publish reach the caller
fail_job_raises_on_error(error) == error

\* _fail_job raises: never, its body is one try whose except clause logs
fail_job_raises(error) == FALSE

\* _fail_job: the commit or the publish may raise; either is logged.  An
\* exception leaving the handler would make msg_handler nak the message.
FailJob(w) ==
  /\ worker[w].pc = "fail"
  /\ LET job_id == worker[w].event.job_id
     IN  \/ /\ jobs' = fail_job(jobs, job_id, worker[w].error, now)
            /\ published' = [published EXCEPT ![job_id].failed = @ + 1]
            /\ UNCHANGED faults
            /\ worker' = [worker EXCEPT ![w].pc =
                 IF fail_job_raises(FALSE) THEN "nak" ELSE "ack"]
         \/ /\ faults < MaxFaults
            /\ faults' = faults + 1
            /\ UNCHANGED << jobs, published >>
            /\ worker' = [worker EXCEPT ![w].pc =
                 IF fail_job_raises(TRUE) THEN "nak" ELSE "ack"]
         \/ /\ faults < MaxFaults
            /\ faults' = faults + 1
            /\ jobs' = fail_job(jobs, job_id, worker[w].error, now)
            /\ UNCHANGED published
            /\ worker' = [worker EXCEPT ![w].pc =
                 IF fail_job_raises(TRUE) THEN "nak" ELSE "ack"]
  /\ UNCHANGED << history, stream, now, deliveries, sourceRuns, handlerRuns,
                  sinkVars, succeeded, calls, call, adminVars >>

\* msg_handler: the callback returned, the message is acknowledged
AckJobStarted(w) ==
  /\ worker[w].pc = "ack"
  /\ stream' = stream \ {worker[w].event}
  /\ worker' = [worker EXCEPT ![w] = IdleWorker]
  /\ UNCHANGED << jobs, history, published, now, deliveries, faults, sourceRuns,
                  handlerRuns, sinkVars, succeeded, calls, call, adminVars >>

Next ==
  \/ \E u \in Users, a \in AutomationIds : trigger_automation(u, a)
  \/ \E u \in Users, j \in JobIds : cancel_job(u, j)
  \/ \E j \in JobIds : JobDeadlineExpires(j)
  \/ \E j \in JobIds, u \in Users, a \in AutomationIds \cup {0} :
       PublishJobStarted(j, u, a)
  \/ \E w \in Workers, j \in JobIds : DeliverJobStarted(w, j)
  \/ \E w \in Workers : UpdateJobStatus(w)
  \/ \E w \in Workers : LoadConfiguration(w)
  \/ \E w \in Workers : ExtractInvoices(w)
  \/ \E w \in Workers : LoadExportMappings(w)
  \/ \E w \in Workers : InvokeExport(w)
  \/ \E w \in Workers : RecordExportHistory(w)
  \/ \E w \in Workers : CompleteJob(w)
  \/ \E w \in Workers : FailJob(w)
  \/ \E w \in Workers : AckJobStarted(w)

Spec == Init /\ [][Next]_vars

(***************************************************************************)
(* The jobs router called by the users, with no worker process running.    *)
(***************************************************************************)
\* the fields of a Job row that the jobs router puts in an answer
JobView(j) == [id |-> j, status |-> jobs[j].status]

\* GET /jobs/{id}: the row is selected by its id alone; 404 if there is none
get_job(u, j) ==
  /\ response' = [response EXCEPT ![u] =
                    IF JobExists(jobs, j)
                    THEN [op |-> "get", code |-> 200, rows |-> {JobView(j)}]
                    ELSE [op |-> "get", code |-> 404, rows |-> {}]]
  /\ UNCHANGED << jobs, history, stream, published, worker, now, deliveries,
                  faults, sourceRuns, handlerRuns, sinkVars, succeeded, calls,
                  call, cancelResponse, expired, bad, pureVars,
                  pipelineVars >>

\* GET /jobs: select(Job) with the optional automation_id and status filters
\* (0 and "" stand for a filter that is not given)
list_jobs(u, automation_id, status) ==
  /\ response' = [response EXCEPT ![u] =
       [op |-> "list", code |-> 200,
        rows |-> {JobView(j) : j \in
                   {k \in JobIds :
                      /\ JobExists(jobs, k)
                      /\ automation_id # 0 => jobs[k].automation_id = automation_id
                      /\ status # "" => jobs[k].status = status}}]]
  /\ UNCHANGED << jobs, history, stream, published, worker, now, deliveries,
                  faults, sourceRuns, handlerRuns, sinkVars, succeeded, calls,
                  call, cancelResponse, expired, bad, pureVars,
                  pipelineVars >>

ApiNext ==
  \/ \E u \in Users, a \in AutomationIds : trigger_automation(u, a)
  \/ \E u \in Users, j \in JobIds : cancel_job(u, j)
  \/ \E u \in Users, j \in JobIds : get_job(u, j)
  \/ \E u \in Users, a \in AutomationIds \cup {0},
        s \in JobStatusCheck \cup {""} : list_jobs(u, a, s)

ApiSpec == Init /\ [][ApiNext]_vars

(***************************************************************************)
(* The durable subscription: msg_handler around the callback of JobWorker, *)
(* with one worker process subscribed and publishers that also put         *)
(* payloads on the subject that are not job.started events.                *)
(***************************************************************************)
\* payloads other than a well-formed event ("event"): bytes that are not
\* JSON, and a JSON object that lacks a required field of JobStartedEvent
BadPayloads == {"undecodable", "invalid"}

\* json.loads(msg.data.decode()) returns
json_loads_ok(payload) == payload # "undecodable"

\* the callback raises: JobStartedEvent(**data) fails validation;
\* handle_job_started itself catches every exception
callback_raises(payload) == payload = "invalid"

\* msg_handler that acknowledges whatever happened
msg_handler_outcome_ack_only(decoded, raised) == "ack"

\* msg_handler: ack after the callback returned, nak from either except clause
msg_handler_outcome(decoded, raised) ==
  IF decoded /\ ~ raised THEN "ack" ELSE "nak"

\* the consumer as ensure_consumer creates it: no max_deliver is given, and
\* the server's default is to redeliver without limit
Unlimited == "unlimited"
ConsumerConfig ==
  [durable_name |-> "job_worker_consumer", filter_subject |-> "job.started",
   max_deliver |-> Unlimited]

\* the server still delivers message m to the consumer
Deliverable(m) ==
  IF ConsumerConfig.max_deliver = Unlimited THEN TRUE
  ELSE m.delivered < ConsumerConfig.max_deliver

PublishMalformed(p) ==
  /\ \A m \in bad : m.payload # p
  /\ bad' = bad \cup {[payload |-> p, delivered |-> 0]}
  /\ UNCHANGED << jobs, history, stream, published, worker, now, deliveries,
                  faults, sourceRuns, handlerRuns, sinkVars, succeeded, calls,
                  call, cancelResponse, expired, response, pureVars,
                  pipelineVars >>

\* the bus delivers (or redelivers) a message with payload p; msg_handler
\* decodes it and calls the callback, which builds the event
DeliverMalformed(w, p) ==
  /\ worker[w].pc = "idle"
  /\ deliveries < MaxDeliveries
  /\ \E m \in bad :
       /\ m.payload = p
       /\ Deliverable(m)
       /\ bad' = (bad \ {m}) \cup {[m EXCEPT !.delivered = @ + 1]}
  /\ deliveries' = deliveries + 1
  /\ worker' = [worker EXCEPT ![w] =
                  [IdleWorker EXCEPT
                     !.pc = msg_handler_outcome(json_loads_ok(p),
                                                callback_raises(p)),
                     !.payload = p]]
  /\ UNCHANGED << jobs, history, stream, published, now, faults, sourceRuns,
                  handlerRuns, sinkVars, succeeded, calls, call,
                  cancelResponse, expired, response, pureVars,
                  pipelineVars >>

\* msg.nak(): the message stays on the stream for redelivery
NakMessage(w) ==
  /\ worker[w].pc = "nak"
  /\ worker' = [worker EXCEPT ![w] = IdleWorker]
  /\ UNCHANGED << jobs, history, stream, published, now, deliveries, faults,
                  sourceRuns, handlerRuns, sinkVars, succeeded, calls, call,
                  adminVars >>

BusWorkers == {"w1"}

BusNext ==
  \/ \E u \in Users, a \in AutomationIds : trigger_automation(u, a)
  \/ \E j \in JobIds, u \in Users, a \in AutomationIds \cup {0} :
       PublishJobStarted(j, u, a)
  \/ \E p \in BadPayloads : PublishMalformed(p)
  \/ \E w \in BusWorkers, j \in JobIds : DeliverJobStarted(w, j)
  \/ \E w \in BusWorkers, p \in BadPayloads : DeliverMalformed(w, p)
  \/ \E w \in BusWorkers : UpdateJobStatus(w)
  \/ \E w \in BusWorkers : LoadConfiguration(w)
  \/ \E w \in BusWorkers : ExtractInvoices(w)
  \/ \E w \in BusWorkers : LoadExportMappings(w)
  \/ \E w \in BusWorkers : InvokeExport(w)
  \/ \E w \in BusWorkers : RecordExportHistory(w)
  \/ \E w \in BusWorkers : CompleteJob(w)
  \/ \E w \in BusWorkers : FailJob(w)
  \/ \E w \in BusWorkers : AckJobStarted(w)
  \/ \E w \in BusWorkers : NakMessage(w)

BusSpec == Init /\ [][BusNext]_vars

(***************************************************************************)
(* Export handlers called directly, as a coordinator with a configured     *)
(* vault client or a test does: the callers are separate processes, each   *)
(* making one export call at a time on the shared sinks.                   *)
(***************************************************************************)
FullInvoiceData ==
  [file_path |-> "/tmp/src.pdf", invoice_id |-> "INV-1", date |-> "2025-03-15",
   amount_eur |-> "42.00", source |-> "X"]

FullContext ==
  [invoice_id |-> "INV-1", date |-> "2025-03-15", amount_eur |-> "42.00",
   month |-> "03", year |-> "2025", source |-> "X"]

PahekoConfig ==
  [label_template |-> << "invoice_id" >>, debit |-> "626", credit |-> "512A",
   paheko_type |-> "EXPENSE"]

LocalStorageConfig ==
  [base_path |-> "/out", path_template |-> << "year", "month", "invoice_id" >>,
   create_directories |-> TRUE]

\* the (handler, invoice, export configuration) combinations that are called
HandlerInputs ==
  << [handler |-> "Paheko", invoice_data |-> FullInvoiceData,
      context |-> FullContext, config |-> PahekoConfig, vault_client |-> TRUE],
     [handler |-> "Paheko",
      invoice_data |-> [file_path |-> "/tmp/src.pdf", amount_eur |-> "42.00"],
      context |-> FullContext, config |-> PahekoConfig, vault_client |-> TRUE],
     [handler |-> "Paheko", invoice_data |-> FullInvoiceData,
      context |-> FullContext, config |-> [PahekoConfig EXCEPT !.debit = ""],
      vault_client |-> TRUE],
     [handler |-> "Paheko", invoice_data |-> FullInvoiceData,
      context |-> FullContext, config |-> PahekoConfig, vault_client |-> FALSE],
     [handler |-> "LocalStorage", invoice_data |-> FullInvoiceData,
      context |-> FullContext, config |-> LocalStorageConfig,
      vault_client |-> FALSE],
     [handler |-> "LocalStorage",
      invoice_data |-> [FullInvoiceData EXCEPT !.file_path = "/nonexistent/file.pdf"],
      context |-> FullContext, config |-> LocalStorageConfig,
      vault_client |-> FALSE],
     [handler |-> "LocalStorage", invoice_data |-> FullInvoiceData,
      context |-> FullContext,
      config |-> [LocalStorageConfig EXCEPT
                    !.path_template = << "invalid_variable" >>],
      vault_client |-> FALSE],
     [handler |-> "LocalStorage", invoice_data |-> FullInvoiceData,
      context |-> [invoice_id |-> "INV-1", amount_eur |-> "42.00",
                   month |-> "03", year |-> "2025"],
      config |-> LocalStorageConfig, vault_client |-> FALSE],
     [handler |-> "LocalStorage",
      invoice_data |-> [file_path |-> "/tmp/src.pdf", amount_eur |-> "42.00"],
      context |-> FullContext, config |-> LocalStorageConfig,
      vault_client |-> FALSE],
     [handler |-> "Paheko", invoice_data |-> FullInvoiceData,
      context |-> [invoice_id |-> "INV-1", date |-> "2025-03-15"],
      config |-> PahekoConfig, vault_client |-> TRUE],
     [handler |-> "LocalStorage", invoice_data |-> FullInvoiceData,
      context |-> [invoice_id |-> "INV-1", date |-> "2025",
                   amount_eur |-> "42.00"],
      config |-> [LocalStorageConfig EXCEPT
                    !.path_template = << "quarter", "invoice_id" >>],
      vault_client |-> FALSE],
     [handler |-> "LocalStorage", invoice_data |-> FullInvoiceData,
      context |-> FullContext,
      config |-> [LocalStorageConfig EXCEPT !.create_directories = FALSE],
      vault_client |-> FALSE],
     [handler |-> "LocalStorage", invoice_data |-> FullInvoiceData,
      context |-> FullContext,
      config |-> [LocalStorageConfig EXCEPT
                    !.path_template = << "amount_eur" >>],
      vault_client |-> FALSE],
     [handler |-> "GoogleDrive", invoice_data |-> FullInvoiceData,
      context |-> FullContext, config |-> LocalStorageConfig,
      vault_client |-> FALSE],
     [handler |-> "GoogleDrive",
      invoice_data |-> [file_path |-> "/tmp/src.pdf", amount_eur |-> "42.00"],
      context |-> FullContext, config |-> LocalStorageConfig,
      vault_client |-> FALSE] >>

\* an entry as the journal of the sink holds it
JournalEntry(id, id_year, config, date_str, label) ==
  [id |-> id, id_year |-> id_year, debit |-> config.debit, date |-> date_str,
   label |-> label]

\* the journal before the first call: empty, or holding the entry of INV-1
InitialJournals ==
  { {}, {JournalEntry(0, 1, PahekoConfig, "2025-03-15", << "INV-1" >>)} }

HandlerInit ==
  /\ jobs = [j \in JobIds |-> NoJob]
  /\ history = EmptyRows
  /\ stream = {}
  /\ published = [j \in JobIds |-> [completed |-> 0, failed |-> 0]]
  /\ worker = [w \in Workers |-> IdleWorker]
  /\ now = 0
  /\ deliveries = 0
  /\ faults = 0
  /\ sourceRuns = [j \in JobIds |-> 0]
  /\ handlerRuns = [j \in JobIds |-> 0]
  /\ journal \in InitialJournals
  /\ createCalls = 0
  /\ dirs = {}
  /\ files = {}
  /\ copies = 0
  /\ succeeded = {}
  /\ calls = 0
  /\ call = [c \in Callers |-> NoCall]
  /\ cancelResponse = [j \in JobIds |-> NoResponse]
  /\ expired = [j \in JobIds |-> FALSE]
  /\ response = [u \in Users |-> NoReply]
  /\ bad = {}
  /\ arg = NoArguments
  /\ ret = NotCalled
  /\ job_sources = [j \in JobIds |-> NotTracked]
  /\ sourceEvents = {}
  /\ exportEvents = {}
  /\ exportOutcomes = [j \in JobIds |-> [completed |-> 0, failed |-> 0]]
  /\ timeoutTask = [j \in JobIds |-> 0]

\* PahekoExportHandler.export up to its first request to the sink
PahekoExportStart(c, i) ==
  /\ call[c].pc \in {"idle", "done"}
  /\ calls < MaxCalls
  /\ HandlerInputs[i].handler = "Paheko"
  /\ calls' = calls + 1
  /\ LET in == HandlerInputs[i]
         prep == PahekoPrepare(in.invoice_data, in.context, in.config,
                               in.vault_client)
         begun == [NoCall EXCEPT !.handler = "Paheko", !.input = i,
                                 !.priorSuccess = i \in succeeded]
     IN  call' = [call EXCEPT ![c] =
           IF prep.done
           THEN [begun EXCEPT !.pc = "done", !.result = prep.result]
           ELSE [begun EXCEPT !.pc = "year", !.label = prep.label]]
  /\ UNCHANGED << workerVars, faults, sinkVars, succeeded >>

\* _get_accounting_year and the test of its result
PahekoGetAccountingYear(c) ==
  /\ call[c].pc = "year"
  /\ \E requestFails \in BOOLEAN :
       /\ requestFails => faults < MaxFaults
       /\ faults' = IF requestFails THEN faults + 1 ELSE faults
       /\ LET in == HandlerInputs[call[c].input]
              id_year == get_accounting_year(in.context["date"], requestFails)
          IN  call' = [call EXCEPT ![c] =
                IF id_year = 0
                THEN [@ EXCEPT !.pc = "done",
                        !.result = ExportResult("failed", NoReference,
                                     "No matching accounting year found")]
                ELSE [@ EXCEPT !.pc = "guard", !.id_year = id_year]]
  /\ UNCHANGED << workerVars, sinkVars, succeeded, calls >>

\* _check_duplicate and the test of its result
PahekoCheckDuplicate(c) ==
  /\ call[c].pc = "guard"
  /\ \E requestFails \in BOOLEAN :
       /\ requestFails => faults < MaxFaults
       /\ faults' = IF requestFails THEN faults + 1 ELSE faults
       /\ LET me == call[c]
              in == HandlerInputs[me.input]
              date_str == in.context["date"]
              duplicate_check ==
                check_duplicate(in.config, journal, me.id_year, me.label,
                                date_str, requestFails)
              present ==
                \E e \in journal : /\ e.id_year = me.id_year
                                   /\ e.debit = in.config.debit
                                   /\ e.date = date_str
                                   /\ e.label = me.label
          IN  call' = [call EXCEPT ![c] =
                IF duplicate_check
                THEN [@ EXCEPT !.pc = "done", !.entryPresent = present,
                        !.guardFailed = requestFails,
                        !.result = ExportResult("duplicate_skipped", NoReference,
                                     "Duplicate entry already exists")]
                ELSE [@ EXCEPT !.pc = "create", !.entryPresent = present,
                        !.guardFailed = requestFails]]
  /\ UNCHANGED << workerVars, sinkVars, succeeded, calls >>

\* _create_transaction and the test of its result
PahekoCreateTransaction(c) ==
  /\ call[c].pc = "create"
  /\ LET me == call[c]
         in == HandlerInputs[me.input]
         id == createCalls + 1
     IN  IF ~ CanCreateTransaction(in.config, in.invoice_data["amount_eur"])
         THEN /\ call' = [call EXCEPT ![c] =
                   [@ EXCEPT !.pc = "done",
                      !.result = ExportResult("failed", NoReference,
                                   "Failed to create transaction in Paheko")]]
              /\ UNCHANGED << faults, journal, createCalls, succeeded >>
         ELSE \/ /\ journal' = journal \cup
                      {JournalEntry(id, me.id_year, in.config,
                                    in.context["date"], me.label)}
                 /\ createCalls' = createCalls + 1
                 /\ succeeded' = succeeded \cup {me.input}
                 /\ call' = [call EXCEPT ![c] =
                      [@ EXCEPT !.pc = "done", !.created = TRUE,
                         !.result = ExportResult("success",
                                      << "transaction", IdStrings[id] >>, "")]]
                 /\ UNCHANGED faults
              \/ /\ faults < MaxFaults
                 /\ faults' = faults + 1
                 /\ call' = [call EXCEPT ![c] =
                      [@ EXCEPT !.pc = "done",
                         !.result = ExportResult("failed", NoReference,
                                      "Failed to create transaction in Paheko")]]
                 /\ UNCHANGED << journal, createCalls, succeeded >>
  /\ UNCHANGED << workerVars, dirs, files, copies, calls >>

\* LocalStorageExportHandler.export
LocalStorageExportCall(c, i) ==
  /\ call[c].pc \in {"idle", "done"}
  /\ calls < MaxCalls
  /\ HandlerInputs[i].handler = "LocalStorage"
  /\ calls' = calls + 1
  /\ LET in == HandlerInputs[i]
         out == LocalStorageExport(in.invoice_data, in.context, in.config,
                                   dirs, files)
     IN  /\ dirs' = out.dirs
         /\ files' = out.files
         /\ copies' = IF out.copied THEN copies + 1 ELSE copies
         /\ succeeded' = IF out.result.status = "success"
                         THEN succeeded \cup {i} ELSE succeeded
         /\ call' = [call EXCEPT ![c] =
              [NoCall EXCEPT !.handler = "LocalStorage", !.input = i,
                             !.pc = "done", !.priorSuccess = i \in succeeded,
                             !.created = out.copied, !.result = out.result]]
  /\ UNCHANGED << workerVars, faults, journal, createCalls >>

\* GoogleDriveExportHandler.export
GoogleDriveExportCall(c, i) ==
  /\ call[c].pc \in {"idle", "done"}
  /\ calls < MaxCalls
  /\ HandlerInputs[i].handler = "GoogleDrive"
  /\ calls' = calls + 1
  /\ LET in == HandlerInputs[i]
     IN  call' = [call EXCEPT ![c] =
           [NoCall EXCEPT !.handler = "GoogleDrive", !.input = i,
                          !.pc = "done", !.priorSuccess = i \in succeeded,
                          !.result = GoogleDriveExport(in.invoice_data,
                                                       in.context, in.config)]]
  /\ UNCHANGED << workerVars, faults, sinkVars, succeeded >>

HandlerNext ==
  \/ \E c \in Callers, i \in DOMAIN HandlerInputs : PahekoExportStart(c, i)
  \/ \E c \in Callers : PahekoGetAccountingYear(c)
  \/ \E c \in Callers : PahekoCheckDuplicate(c)
  \/ \E c \in Callers : PahekoCreateTransaction(c)
  \/ \E c \in Callers, i \in DOMAIN HandlerInputs : LocalStorageExportCall(c, i)
  \/ \E c \in Callers, i \in DOMAIN HandlerInputs : GoogleDriveExportCall(c, i)

HandlerSpec == HandlerInit /\ [][HandlerNext]_vars
(***************************************************************************)
(* Properties.                                                             *)
(***************************************************************************)
\* the workers that are handling a job.started delivery of job j
Handling(j) ==
  {w \in Workers : worker[w].pc # "idle" /\ worker[w].event.job_id = j}

\* the positions of handle_job_started between the status update and the
\* finalization: the worker is executing the extract/export workflow
WorkflowPositions ==
  {"load", "extract", "mappings", "invoke", "record", "complete"}

AllowedTransitions ==
  { << "pending", "running" >>, << "running", "completed" >>,
    << "running", "failed" >>, << "pending", "cancelled" >>,
    << "running", "cancelled" >> }

\* C1: the only changes of Job.status that ever occur are pending->running,
\* running->completed, running->failed, pending->cancelled and
\* running->cancelled; a terminal status is never changed again.
C1_MonotoneStatus ==
  [][\A j \in JobIds :
       (JobExists(jobs, j) /\ jobs'[j].status # jobs[j].status)
         => << jobs[j].status, jobs'[j].status >> \in AllowedTransitions]_vars

\* C2: once no worker is handling a job any more, a job in status completed
\* has exactly one job.completed and no job.failed event published, and a job
\* in status failed exactly one job.failed and no job.completed.
C2_ExactlyOneTerminalEvent ==
  \A j \in JobIds :
    Handling(j) = {} =>
      /\ jobs[j].status = "completed"
           => published[j] = [completed |-> 1, failed |-> 0]
      /\ jobs[j].status = "failed"
           => published[j] = [completed |-> 0, failed |-> 1]

\* C3: the handling of a job.started delivery that finds the job's stored
\* status different from pending leaves the store unchanged and goes
\* straight to the acknowledgement.
C3_RedeliveryIsNoOp ==
  [][\A w \in Workers :
       ( /\ worker[w].pc = "update_status"
         /\ worker'[w] # worker[w]
         /\ JobExists(jobs, worker[w].event.job_id)
         /\ jobs[worker[w].event.job_id].status # "pending" )
       => ( /\ jobs' = jobs
            /\ history' = history
            /\ published' = published
            /\ worker'[w].pc = "ack" )]_vars

\* C4: at most one worker at a time is past the pending->running transition
\* of a job and executing its extract/export workflow.
C4_SingleOwner ==
  \A j \in JobIds :
    Cardinality({w \in Handling(j) : worker[w].pc \in WorkflowPositions}) <= 1

\* C5: the step that follows an Export Handler invocation adds exactly one
\* ExportHistory row, carrying the job_id, the export's type and the status
\* the handler returned.
C5_OneRowPerInvocation ==
  [][\A w \in Workers :
       ( /\ worker[w].pc = "record"
         /\ worker[w].invoked
         /\ worker'[w] # worker[w] )
       => history' =
            AddRow(history,
                   HistoryRow(worker[w].event.job_id,
                              worker[w].pairs[worker[w].pi].export,
                              worker[w].result.status, worker[w].context,
                              worker[w].result.external_reference,
                              worker[w].result.error_message))]_vars

\* C6: the journal of the accounting sink never holds two entries with the
\* same natural key (date, label) for one account and accounting year.
C6_AtMostOneEntryPerKey ==
  \A e1, e2 \in journal :
    ( /\ e1.id_year = e2.id_year
      /\ e1.debit = e2.debit
      /\ e1.date = e2.date
      /\ e1.label = e2.label ) => e1 = e2

\* C7: an accounting export that was made while the journal of the target
\* account and year held an entry with the invoice date and the rendered label
\* returns duplicate_skipped without external reference and has made no
\* create-transaction request.
C7_DuplicateSkipped ==
  \A c \in Callers :
    (call[c].handler = "Paheko" /\ call[c].entryPresent)
      => /\ call[c].pc = "done"
         /\ call[c].result.status = "duplicate_skipped"
         /\ call[c].result.external_reference = NoReference
         /\ ~ call[c].created

\* C8: a handler call made after a call for the same invoice and export has
\* returned success returns duplicate_skipped and has no external effect.
C8_SecondCallSkipped ==
  \A c \in Callers :
    (call[c].pc = "done" /\ call[c].priorSuccess)
      => /\ call[c].result.status = "duplicate_skipped"
         /\ ~ call[c].created

\* C9: an accounting export whose duplicate-guard query failed returns
\* failed and creates no transaction.
C9_GuardFailureFails ==
  \A c \in Callers :
    call[c].guardFailed
      => /\ call[c].pc = "done"
         /\ call[c].result.status = "failed"
         /\ ~ call[c].created

\* C10: a job is in status running only while a worker is handling it: when
\* the handler has returned the job is completed or failed.
C10_NeverStuckRunning ==
  \A j \in JobIds : jobs[j].status = "running" => Handling(j) # {}

(***************************************************************************)
(* Properties of one handling of a job.started delivery.                   *)
(***************************************************************************)
JobOf(w) == worker[w].event.job_id

\* the step is taken by worker w, which is handling a delivery
StepOf(w) == worker[w].pc # "idle" /\ worker'[w] # worker[w]

\* the event names an automation of the store that its user owns
EventOwned(e) ==
  \E i \in DOMAIN AutomationTable :
    AutomationTable[i].id = e.automation_id
    /\ AutomationTable[i].user_id = e.user_id

ActiveSourceIds(a) ==
  {SourceTable[i].id : i \in {k \in DOMAIN SourceTable :
      SourceTable[k].automation_id = a /\ SourceTable[k].active}}

ActiveExportIds(a) ==
  {ExportTable[i].id : i \in {k \in DOMAIN ExportTable :
      ExportTable[k].automation_id = a /\ ExportTable[k].active}}

\* the mappings that connect an active source of automation a to one of its
\* active exports
ConnectingMappings(a) ==
  {MappingTable[i] : i \in {k \in DOMAIN MappingTable :
      MappingTable[k].source_id \in ActiveSourceIds(a)
      /\ MappingTable[k].export_id \in ActiveExportIds(a)}}

\* the step is the finalization of the handling: the status write and the
\* publication of the terminal event, without error of the store or the bus
Finalizes(w) ==
  /\ StepOf(w)
  /\ worker[w].pc \in {"complete", "fail"}
  /\ faults' = faults

EndsCompleted(w) ==
  /\ jobs'[JobOf(w)].status = "completed"
  /\ published'[JobOf(w)] =
       [published[JobOf(w)] EXCEPT !.completed = @ + 1]

EndsFailed(w) ==
  /\ jobs'[JobOf(w)].status = "failed"
  /\ published'[JobOf(w)] = [published[JobOf(w)] EXCEPT !.failed = @ + 1]

WellFormedInvoice(invoice) ==
  /\ invoice.invoice_id # ""
  /\ StrLen(invoice.date) = 10
  /\ invoice.amount # ""
  /\ invoice.file_path \in ExistingSourceFiles

\* the destination a filesystem export renders for an invoice
RenderedDestination(export, invoice) ==
  << ExportConfiguration(export).base_path >>
  \o << Slice04(invoice.date), Slice57(invoice.date), invoice.invoice_id >>

\* C12: when the worker has called a filesystem export with a valid path
\* template for a well-formed invoice, the handler has accepted the invoice
\* data and returned success with the rendered destination path as external
\* reference; a handling of one such invoice mapped to one such export ends
\* with stats invoices_extracted = 1 and exports_completed = 1.
C12_HappyPathExportSucceeds ==
  \A w \in Workers :
    /\ ( /\ worker[w].pc = "record"
         /\ worker[w].invoked
         /\ worker[w].pairs[worker[w].pi].export.type = "LocalStorage"
         /\ validate_path_template(
              ExportConfiguration(worker[w].pairs[worker[w].pi].export).path_template)
         /\ WellFormedInvoice(worker[w].pairs[worker[w].pi].invoice) )
       => /\ worker[w].result.status = "success"
          /\ worker[w].result.external_reference =
               RenderedDestination(worker[w].pairs[worker[w].pi].export,
                                   worker[w].pairs[worker[w].pi].invoice)
    /\ ( /\ worker[w].pc = "complete"
         /\ Len(worker[w].all_invoices) = 1
         /\ Len(worker[w].pairs) = 1
         /\ worker[w].pairs[1].export.type = "LocalStorage"
         /\ WellFormedInvoice(worker[w].pairs[1].invoice) )
       => /\ worker[w].stats.invoices_extracted = 1
          /\ worker[w].stats.exports_completed = 1

\* the automation has no active source, or no active export, or no mapping
\* connecting an active source to an active export
EmptyPipeline(a) ==
  \/ ActiveSourceIds(a) = {}
  \/ ActiveExportIds(a) = {}
  \/ ConnectingMappings(a) = {}

\* C13: the handling of a job.started delivery whose automation has an empty
\* pipeline invokes no Export Handler, never writes status completed nor
\* publishes job.completed, and its finalization writes status failed and
\* publishes job.failed.
C13_EmptyPipelineFails ==
  [][\A w \in Workers :
       ( /\ StepOf(w)
         /\ EventOwned(worker[w].event)
         /\ EmptyPipeline(worker[w].event.automation_id) )
       => /\ handlerRuns' = handlerRuns
          /\ published'[JobOf(w)].completed = published[JobOf(w)].completed
          /\ jobs'[JobOf(w)].status = "completed"
               => jobs[JobOf(w)].status = "completed"
          /\ Finalizes(w) => EndsFailed(w)]_vars

\* in the handling of worker w a source run has raised and another has
\* succeeded
PartialSourceFailure(w) ==
  /\ worker[w].failed_sources # {}
  /\ worker[w].stats.sources_executed >= 1

\* C14: a source run that raises adds no invoice and does not end the
\* handling; in a handling where one source raised and another succeeded, no
\* (invoice, export) pair comes from a failed source, every extracted invoice
\* is paired with every active export its source is mapped to, the pairs are
\* attempted one after the other, and the finalization writes status
\* completed and publishes job.completed (the store and the bus raising no
\* error).
C14_PartialSourceFailure ==
  [][\A w \in Workers :
       StepOf(w) =>
         /\ worker[w].pc = "extract" =>
              LET source == worker[w].sources[worker[w].si]
                  before == worker[w].all_invoices
                  after == worker'[w].all_invoices
              IN  /\ worker'[w].pc # "fail"
                  /\ SubSeq(after, 1, Len(before)) = before
                  /\ \A k \in (Len(before) + 1)..Len(after) :
                       after[k].source = source
                  /\ source.id \in worker'[w].failed_sources => after = before
         /\ PartialSourceFailure(w) =>
              /\ worker'[w].pc # "fail"
              /\ \A k \in DOMAIN worker'[w].pairs :
                   worker'[w].pairs[k].source.id \notin worker[w].failed_sources
              /\ worker[w].pc = "mappings" =>
                   \A i \in DOMAIN worker[w].all_invoices :
                     \A m \in ConnectingMappings(worker[w].event.automation_id) :
                       m.source_id = worker[w].all_invoices[i].source.id
                       => \E k \in DOMAIN worker'[w].pairs :
                            /\ worker'[w].pairs[k].invoice
                                 = worker[w].all_invoices[i].invoice
                            /\ worker'[w].pairs[k].source
                                 = worker[w].all_invoices[i].source
                            /\ worker'[w].pairs[k].export.id = m.export_id
              /\ worker[w].pc = "invoke" => worker'[w].pc = "record"
              /\ worker[w].pc = "record" =>
                   /\ worker'[w].pi = worker[w].pi + 1
                   /\ worker'[w].pc = IF worker[w].pi = Len(worker[w].pairs)
                                      THEN "complete" ELSE "invoke"
              /\ Finalizes(w) => EndsCompleted(w)]_vars

C14_Witness ==
  \E w \in Workers :
    /\ worker[w].pc = "ack"
    /\ PartialSourceFailure(w)
    /\ worker[w].stats.invoices_extracted >= 1
    /\ Len(worker[w].pairs) >= 1
    /\ worker[w].pi = Len(worker[w].pairs) + 1
    /\ faults = 0
    /\ handlerRuns[JobOf(w)] = Len(worker[w].pairs)
    /\ jobs[JobOf(w)].status = "completed"
    /\ published[JobOf(w)] = [completed |-> 1, failed |-> 0]

\* in the handling of worker w the Source Runner has raised for every active
\* source of the automation
AllSourcesFailed(w) ==
  /\ worker[w].sources # << >>
  /\ worker[w].si = Len(worker[w].sources) + 1
  /\ worker[w].failed_sources
       = {worker[w].sources[k].id : k \in DOMAIN worker[w].sources}

\* C15: the finalization of a handling in which the Source Runner raised for
\* every active source (of an automation whose pipeline is not empty) writes
\* status failed and publishes job.failed, and publishes no job.completed.
C15_AllSourcesFailedFails ==
  [][\A w \in Workers :
       ( /\ Finalizes(w)
         /\ AllSourcesFailed(w)
         /\ ~ EmptyPipeline(worker[w].event.automation_id) )
       => EndsFailed(w)]_vars

\* the number of ExportHistory rows of a job that carry one of the statuses
RECURSIVE CountRows(_, _)
CountRows(rows, keys) ==
  IF keys = {} THEN 0
  ELSE LET r == CHOOSE x \in keys : TRUE
       IN  rows[r] + CountRows(rows, keys \ {r})

RowsOf(rows, job_id, statuses) ==
  CountRows(rows, {r \in DOMAIN rows :
                     r.job_id = job_id /\ r.status \in statuses})

C17_DeadlineForcesFailed ==
  [][\A j \in JobIds :
       ( /\ ~ expired[j]
         /\ expired'[j]
         /\ jobs[j].status \in {"pending", "running"} )
       => /\ jobs'[j].status = "failed"
          /\ published'[j] = [published[j] EXCEPT !.failed = @ + 1]]_vars

\* the cancel operation has found job j running, accepted its cancellation
\* and assigned status cancelled
CancelAccepted(j) ==
  /\ cancelResponse[j].code \in {204, 500}
  /\ cancelResponse[j].status = "running"

C19_CancelStoresCancelled ==
  [][\A j \in JobIds :
       (JobExists(jobs, j) /\ cancelResponse'[j] # cancelResponse[j]) =>
         IF jobs[j].status \in {"pending", "running"}
         THEN jobs'[j].status = "cancelled"
         ELSE jobs'[j] = jobs[j] /\ cancelResponse'[j].code = 400]_vars

\* C20: the handling of a job.started delivery whose user does not own the
\* referenced automation, or whose automation does not exist, makes no Source
\* Runner call and no Export Handler call, writes no ExportHistory row and
\* publishes no job.completed; it takes the failure path, whose finalization
\* writes status failed and publishes job.failed (the store and the bus
\* raising no error).
C20_ForeignEventFails ==
  [][\A w \in Workers :
       (StepOf(w) /\ ~ EventOwned(worker[w].event)) =>
         /\ sourceRuns' = sourceRuns
         /\ handlerRuns' = handlerRuns
         /\ history' = history
         /\ published'[JobOf(w)].completed = published[JobOf(w)].completed
         /\ worker[w].pc \in {"update_status", "load", "fail", "ack"}
         /\ worker[w].pc = "load" => worker'[w].pc = "fail"
         /\ Finalizes(w) => EndsFailed(w)]_vars

C20_Witness ==
  \E w \in Workers :
    /\ worker[w].pc = "ack"
    /\ worker[w].event.automation_id \in AutomationIds
    /\ ~ EventOwned(worker[w].event)
    /\ faults = 0
    /\ sourceRuns[JobOf(w)] = 0
    /\ handlerRuns[JobOf(w)] = 0
    /\ history = EmptyRows
    /\ jobs[JobOf(w)].status = "failed"
    /\ published[JobOf(w)] = [completed |-> 0, failed |-> 1]

(***************************************************************************)
(* Tenancy of the jobs router.                                             *)
(***************************************************************************)
\* the user who owns the automation of job j (0: none)
OwnerOfJob(j) ==
  LET found == SelectSeq(AutomationTable,
                         LAMBDA a : a.id = jobs[j].automation_id)
  IN  IF found = << >> THEN 0 ELSE found[1].user_id

\* C21: job lookups are tenant-isolated: an answer of the list or get
\* operation of the jobs router never shows its caller the status of a job
\* whose automation is owned by another user
C21_TenantIsolated ==
  \A u \in Users : \A r \in response[u].rows : OwnerOfJob(r.id) = u

(***************************************************************************)
(* Triggering an automation.                                               *)
(***************************************************************************)
\* the step inserts the Job row of job j
JobInserted(j) == ~ JobExists(jobs, j) /\ JobExists(jobs', j)

\* C22: the trigger operation that inserts a Job row inserts it in status
\* pending and, in the same step, puts a job.started event for that job on
\* the stream (without which no worker ever consumes the job)
C22_TriggerPublishes ==
  [][\A j \in JobIds :
       JobInserted(j) =>
         /\ jobs'[j].status = "pending"
         /\ \E m \in stream' : m.job_id = j]_vars

(***************************************************************************)
(* The timestamps of the Job row.                                          *)
(***************************************************************************)
\* C23: in every reachable state no Job row has status running together with
\* a completed_at that is set, redeliveries and failures included
C23_RunningNotCompleted ==
  \A j \in JobIds :
    jobs[j].status = "running" => jobs[j].completed_at = NullTime

C26_OneOutcomePerDelivery ==
  [][\A w \in Workers :
       LET decoded == json_loads_ok(worker[w].payload)
           raised == callback_raises(worker[w].payload)
       IN  /\ worker[w].pc = "ack" => (decoded /\ ~ raised)
           /\ worker[w].pc = "nak" => (~ decoded \/ raised)
           /\ (worker[w].pc \in {"ack", "nak"} /\ worker'[w] # worker[w])
                => worker'[w].pc = "idle"
           /\ (worker[w].pc # "idle" /\ worker'[w].pc = "idle")
                => worker[w].pc \in {"ack", "nak"}
           /\ (worker[w].pc = "ack" /\ worker'[w].pc = "idle")
                => worker[w].event \notin stream'
           /\ (worker[w].pc = "nak" /\ worker'[w].pc = "idle")
                => \E m \in bad' : m.payload = worker[w].payload]_vars

\* a message that cannot be processed has been delivered and nak'ed, a
\* well-formed event has been handled to a terminal status and acknowledged
C26_Witness ==
  /\ \E m \in bad : m.delivered >= 1
  /\ \E j \in JobIds : jobs[j].status \in {"completed", "failed"}
  /\ stream = {}
  /\ \A w \in Workers : worker[w].pc = "idle"

\* C27: a message whose processing raises on every delivery is redelivered
\* only a bounded number of times: once it has been delivered (and nak'ed)
\* as many times as the bus makes deliveries here, the server no longer
\* delivers it to the handler
C27_BoundedRedelivery ==
  \A m \in bad : m.delivered >= MaxDeliveries => ~ Deliverable(m)

(***************************************************************************)
(* The results of the export handlers.                                     *)
(***************************************************************************)
\* C28: whatever the invoice_data, context and configuration, and whatever
\* the sink does (errors, missing files, unrenderable templates), a handler's
\* export returns a result whose status is success, failed or
\* duplicate_skipped; no exception reaches the caller
C28_ExportAlwaysReturns ==
  \A c \in Callers :
    call[c].pc = "done" =>
      call[c].result.status \in {"success", "failed", "duplicate_skipped"}

\* one call has returned from a template that cannot be rendered, another
\* from a copy into a directory that does not exist
C28_Witness ==
  \E c, d \in Callers :
    /\ call[c].pc = "done"
    /\ call[c].result.error_message = "Missing template variable"
    /\ call[d].pc = "done"
    /\ call[d].result.error_message = "No such file or directory"

\* the input lacks a required field of invoice_data or of the context
MissingRequired(in) ==
  \/ \E k \in {"file_path", "invoice_id", "date", "amount_eur"} :
       k \notin DOMAIN in.invoice_data
  \/ \E k \in {"invoice_id", "date", "amount_eur"} : k \notin DOMAIN in.context

ClosedVariableSet == TEMPLATE_VARIABLES \cup {"filename"}

\* the variable names validate_path_template lets pass
AcceptedVariables ==
  TEMPLATE_VARIABLES \cup {"date", "amount_eur", "source", "filename"}

\* caller c has just made a filesystem export call with complete
\* invoice_data and context whose path_template has a variable outside vs
CallWithVariableOutside(c, vs) ==
  /\ call'[c] # call[c]
  /\ call'[c].handler = "LocalStorage"
  /\ ~ MissingRequired(HandlerInputs[call'[c].input])
  /\ \E i \in DOMAIN HandlerInputs[call'[c].input].config.path_template :
       HandlerInputs[call'[c].input].config.path_template[i] \notin vs

\* the call of c was rejected for its template before any filesystem write
RejectedBeforeWrite(c) ==
  /\ call'[c].result.status = "failed"
  /\ call'[c].result.error_message = "Unknown variable"
  /\ ~ call'[c].created
  /\ UNCHANGED << dirs, files, copies >>

MappingPriority(source_id, export_id) ==
  LET found == SelectSeq(MappingTable,
                 LAMBDA m : m.source_id = source_id /\ m.export_id = export_id)
  IN  found[1].priority

\* C31: for each invoice its mapped exports are attempted in ascending
\* Mapping.priority order: of two handlers invoked for the same invoice, the
\* one invoked first never has the larger priority number
C31_PriorityOrder ==
  \A w \in Workers :
    \A i, j \in DOMAIN worker[w].pairs :
      ( /\ i < j
        /\ j < worker[w].pi
        /\ worker[w].pairs[i].invoice = worker[w].pairs[j].invoice
        /\ worker[w].pairs[i].source = worker[w].pairs[j].source
        /\ ~ BuildContextRaises(worker[w].pairs[i].invoice) )
      => MappingPriority(worker[w].pairs[i].source.id,
                         worker[w].pairs[i].export.id)
           <= MappingPriority(worker[w].pairs[j].source.id,
                              worker[w].pairs[j].export.id)

(***************************************************************************)
(* The path_template functions called on their own: a caller holds a       *)
(* month, a template and a context and calls get_quarter and               *)
(* render_path_template on them.                                           *)
(***************************************************************************)
TemplateMonths ==
  {MonthStrings[i] : i \in DOMAIN MonthStrings} \cup {"00", "13", "ab"}

TemplateTemplates ==
  { << >>, << "year", "month" >>, << "quarter", "invoice_id" >>,
    << "missing_var" >>, << "amount", "source" >>,
    << "month_name", "filename" >>, << "date" >> }

TemplateContexts ==
  << [date |-> "2025-03-15", invoice_id |-> "INV-1", source |-> "X",
      amount_eur |-> "42.00"],
     [date |-> "2025-10-29", invoice_id |-> "INV-1"],
     [date |-> "2025", invoice_id |-> "INV-1", amount_eur |-> "99.50"],
     [invoice_id |-> "INV-1", source |-> "X", amount_eur |-> "n/a"],
     [date |-> "2025-ab-15", invoice_id |-> "INV-1", filename |-> "f.pdf"] >>

TemplateInit ==
  /\ jobs = [j \in JobIds |-> NoJob]
  /\ history = EmptyRows
  /\ stream = {}
  /\ published = [j \in JobIds |-> [completed |-> 0, failed |-> 0]]
  /\ worker = [w \in Workers |-> IdleWorker]
  /\ now = 0
  /\ deliveries = 0
  /\ faults = 0
  /\ sourceRuns = [j \in JobIds |-> 0]
  /\ handlerRuns = [j \in JobIds |-> 0]
  /\ journal = {}
  /\ createCalls = 0
  /\ dirs = {}
  /\ files = {}
  /\ copies = 0
  /\ succeeded = {}
  /\ calls = 0
  /\ call = [c \in Callers |-> NoCall]
  /\ cancelResponse = [j \in JobIds |-> NoResponse]
  /\ expired = [j \in JobIds |-> FALSE]
  /\ response = [u \in Users |-> NoReply]
  /\ bad = {}
  /\ \E month \in TemplateMonths, template \in TemplateTemplates,
        k \in DOMAIN TemplateContexts :
       arg = [month |-> month, template |-> template,
              context |-> TemplateContexts[k]]
  /\ ret = NotCalled
  /\ job_sources = [j \in JobIds |-> NotTracked]
  /\ sourceEvents = {}
  /\ exportEvents = {}
  /\ exportOutcomes = [j \in JobIds |-> [completed |-> 0, failed |-> 0]]
  /\ timeoutTask = [j \in JobIds |-> 0]

\* the caller calls get_quarter(month)
CallGetQuarter ==
  /\ ret.quarter = "not called"
  /\ ret' = [ret EXCEPT !.quarter = get_quarter(arg.month)]
  /\ UNCHANGED << jobs, history, stream, published, worker, now, deliveries,
                  faults, sourceRuns, handlerRuns, sinkVars, succeeded, calls,
                  call, cancelResponse, expired, response, bad, arg, pipelineVars >>

\* the caller calls render_path_template(template, context)
CallRenderPathTemplate ==
  /\ ret.rendered = << "not called" >>
  /\ ret' = [ret EXCEPT
               !.rendered = render_path_template(arg.template, arg.context)]
  /\ UNCHANGED << jobs, history, stream, published, worker, now, deliveries,
                  faults, sourceRuns, handlerRuns, sinkVars, succeeded, calls,
                  call, cancelResponse, expired, response, bad, arg, pipelineVars >>

TemplateNext ==
  \/ CallGetQuarter
  \/ CallRenderPathTemplate

TemplateSpec == TemplateInit /\ [][TemplateNext]_vars

\* C32: get_quarter maps every month 01..12 to its quarter: 01-03 to Q1,
\* 04-06 to Q2, 07-09 to Q3 and 10-12 to Q4, the boundaries 03, 04, 09 and
\* 10 included.
C32_QuarterOfEveryMonth ==
  ret.quarter # "not called" =>
    /\ arg.month \in {"01", "02", "03"} => ret.quarter = "Q1"
    /\ arg.month \in {"04", "05", "06"} => ret.quarter = "Q2"
    /\ arg.month \in {"07", "08", "09"} => ret.quarter = "Q3"
    /\ arg.month \in {"10", "11", "12"} => ret.quarter = "Q4"

\* get_quarter has returned for the last month of the third quarter
C32_Witness == arg.month = "09" /\ ret.quarter = "Q3"

\* the variable has a value in the context after the date and amount
\* derivations of render_path_template
HasValueAfterDerivations(context, variable) ==
  \/ variable \in DOMAIN context
  \/ /\ variable \in {"year", "month", "month_name", "quarter"}
     /\ "date" \in DOMAIN context
     /\ context["date"] \in {"2025-03-15", "2025-10-29", "2025-ab-15"}
  \/ /\ variable = "amount"
     /\ "amount_eur" \in DOMAIN context
     /\ context["amount_eur"] \in {"42.00", "99.50"}

SourceExecuteEvents(e, sources) ==
  {[job_id |-> e.job_id, automation_id |-> e.automation_id,
    user_id |-> e.user_id, source_id |-> sources[i].id,
    source_name |-> sources[i].name] : i \in DOMAIN sources}

\* JobCoordinator.handle_job_started for the job.started event of job j
CoordinatorHandleJobStarted(j) ==
  /\ \E m \in stream : m.job_id = j
  /\ deliveries < MaxDeliveries
  /\ deliveries' = deliveries + 1
  /\ now' = now + 1
  /\ LET e == MessageOf(j)
         automation == get_automation(e.automation_id, e.user_id)
         sources == get_active_sources(e.automation_id)
     IN  IF automation = << >>
         THEN /\ jobs' = fail_job(jobs, j, "Failed to start job", now + 1)
              /\ published' = [published EXCEPT ![j].failed = @ + 1]
              /\ job_sources' = [job_sources EXCEPT ![j] = NotTracked]
              /\ UNCHANGED << sourceEvents, timeoutTask >>
         ELSE IF sources = << >>
         THEN /\ jobs' = complete_job(jobs, j,
                           [sources_executed |-> 0, exports_completed |-> 0],
                           now + 1)
              /\ published' = [published EXCEPT ![j].completed = @ + 1]
              /\ job_sources' = [job_sources EXCEPT ![j] = NotTracked]
              /\ UNCHANGED << sourceEvents, timeoutTask >>
         ELSE /\ jobs' = update_job_status(jobs, j, "running", now + 1, now + 1)
              /\ job_sources' = [job_sources EXCEPT ![j] =
                   [tracked |-> TRUE,
                    pending |-> {sources[i].id : i \in DOMAIN sources}]]
              /\ sourceEvents' = sourceEvents \cup SourceExecuteEvents(e, sources)
              /\ timeoutTask' = [timeoutTask EXCEPT ![j] = @ + 1]
              /\ UNCHANGED published
  /\ stream' = stream \ {MessageOf(j)}
  /\ UNCHANGED << history, worker, faults, sourceRuns, handlerRuns, sinkVars,
                  succeeded, calls, call, cancelResponse, expired, response,
                  bad, pureVars, exportEvents, exportOutcomes >>

\* SourceWorker._get_source and _get_export_mappings
get_source(source_id, automation_id) ==
  SelectSeq(SourceTable, LAMBDA s : /\ s.id = source_id
                                    /\ s.automation_id = automation_id
                                    /\ s.active)

get_export_mappings(source_id) ==
  SelectSeq(MappingTable, LAMBDA m : m.source_id = source_id)

\* the invoices for which SourceWorker publishes before building a context
\* raises and ends the handler
InvoicesBeforeRaise(invoices) ==
  {k \in DOMAIN invoices :
     \A i \in 1..k : ~ BuildContextRaises(invoices[i])}

\* the export.execute events SourceWorker publishes for the invoices
ExportExecuteEvents(e, source, invoices, export_mappings) ==
  {[job_id |-> e.job_id, automation_id |-> e.automation_id,
    source_id |-> e.source_id, export_id |-> export_mappings[n].export_id,
    invoice_data |-> BuildInvoiceData(invoices[k]),
    context |-> BuildContext(invoices[k], [name |-> e.source_name])] :
     k \in InvoicesBeforeRaise(invoices), n \in DOMAIN export_mappings}

\* SourceWorker.handle_source_execute for one source.execute event
handle_source_execute(e) ==
  /\ e \in sourceEvents
  /\ sourceEvents' = sourceEvents \ {e}
  /\ LET source == get_source(e.source_id, e.automation_id)
         export_mappings == get_export_mappings(e.source_id)
     IN  IF source = << >> \/ export_mappings = << >>
         THEN UNCHANGED << exportEvents, sourceRuns >>
         ELSE \E outcome \in RunnerOutcomes :
                /\ sourceRuns' = [sourceRuns EXCEPT ![e.job_id] = @ + 1]
                /\ exportEvents' = exportEvents \cup
                     ExportExecuteEvents(e, source[1], outcome.invoices,
                                         export_mappings)
  /\ UNCHANGED << jobs, history, stream, published, worker, now, deliveries,
                  faults, handlerRuns, sinkVars, succeeded, calls, call,
                  cancelResponse, expired, response, bad, pureVars,
                  job_sources, exportOutcomes, timeoutTask >>

\* ExportWorker._get_export
get_export(export_id, automation_id) ==
  SelectSeq(ExportTable, LAMBDA x : /\ x.id = export_id
                                    /\ x.automation_id = automation_id
                                    /\ x.active)

\* ExportWorker.handle_export_execute for one export.execute event
handle_export_execute(e) ==
  /\ e \in exportEvents
  /\ exportEvents' = exportEvents \ {e}
  /\ LET export == get_export(e.export_id, e.automation_id)
     IN  IF export = << >>
         THEN /\ exportOutcomes' = [exportOutcomes EXCEPT ![e.job_id].failed = @ + 1]
              /\ UNCHANGED << history, handlerRuns, dirs, files, copies >>
         ELSE LET out == execute_export(export[1], e.invoice_data, e.context,
                                        dirs, files)
                  row == HistoryRow(e.job_id, export[1], out.result.status,
                                    << e.context >>,
                                    out.result.external_reference,
                                    out.result.error_message)
              IN  /\ handlerRuns' = [handlerRuns EXCEPT ![e.job_id] = @ + 1]
                  /\ dirs' = out.dirs
                  /\ files' = out.files
                  /\ copies' = IF out.copied THEN copies + 1 ELSE copies
                  /\ history' = AddRow(history, row)
                  /\ exportOutcomes' =
                       IF out.result.status \in {"success", "duplicate_skipped"}
                       THEN [exportOutcomes EXCEPT ![e.job_id].completed = @ + 1]
                       ELSE [exportOutcomes EXCEPT ![e.job_id].failed = @ + 1]
  /\ UNCHANGED << jobs, stream, published, worker, now, deliveries, faults,
                  sourceRuns, journal, createCalls, succeeded, calls, call,
                  cancelResponse, expired, response, bad, pureVars,
                  job_sources, sourceEvents, timeoutTask >>

\* JobCoordinator._job_timeout: the sleep of a task of job j ends
JobTimeout(j) ==
  /\ timeoutTask[j] > 0
  /\ timeoutTask' = [timeoutTask EXCEPT ![j] = @ - 1]
  /\ now' = now + 1
  /\ IF job_sources[j].tracked
     THEN /\ jobs' = fail_job(jobs, j, "Job timeout", now + 1)
          /\ published' = [published EXCEPT ![j].failed = @ + 1]
          /\ job_sources' = [job_sources EXCEPT ![j] = NotTracked]
     ELSE UNCHANGED << jobs, published, job_sources >>
  /\ UNCHANGED << history, stream, worker, deliveries, faults, sourceRuns,
                  handlerRuns, sinkVars, succeeded, calls, call,
                  cancelResponse, expired, response, bad, pureVars,
                  sourceEvents, exportEvents, exportOutcomes >>

\* the bus delivers a source.execute event to SourceWorker
SourceWorkerHandle == \E e \in sourceEvents : handle_source_execute(e)

\* the bus delivers an export.execute event to ExportWorker
ExportWorkerHandle == \E e \in exportEvents : handle_export_execute(e)

PipelineNext ==
  \/ \E u \in Users, a \in AutomationIds : trigger_automation(u, a)
  \/ \E j \in JobIds, u \in Users, a \in AutomationIds \cup {0} :
       PublishJobStarted(j, u, a)
  \/ \E j \in JobIds : CoordinatorHandleJobStarted(j)
  \/ SourceWorkerHandle
  \/ ExportWorkerHandle
  \/ \E j \in JobIds : JobTimeout(j)

PipelineSpec == Init /\ [][PipelineNext]_vars

\* the coordinator dispatched the sources of job j, every source.execute
\* and export.execute event of the job has been handled, every active
\* source was run and at least one export has finished
PipelineFinished(j) ==
  /\ JobExists(jobs, j)
  /\ timeoutTask[j] > 0 \/ jobs[j].error_message = "Job timeout"
  /\ \A e \in sourceEvents \cup exportEvents : e.job_id # j
  /\ sourceRuns[j] >= Len(get_active_sources(jobs[j].automation_id))
  /\ exportOutcomes[j].completed + exportOutcomes[j].failed >= 1

\* C34: in the coordinator pipeline a job with at least one active source
\* whose sources have all been executed and whose exports have all finished
\* is completed; it does not stay running until the timeout fails it.
C34_FinishedJobNotTimedOut ==
  \A j \in JobIds :
    ( /\ PipelineFinished(j)
      /\ get_active_sources(jobs[j].automation_id) # << >> )
    => ~ ( /\ jobs[j].status = "failed"
           /\ jobs[j].error_message = "Job timeout"
           /\ published[j].completed = 0 )

\* stats.get("sources_failed", 0): a dictionary without the key counts none
SourcesFailed(stats) ==
  IF "sources_failed" \in DOMAIN stats THEN stats["sources_failed"] ELSE 0

\* C35: the stats a completing job stores and publishes carry counts such
\* that sources_executed + sources_failed is the number of active sources,
\* invoices_extracted is the number of invoices the successful sources
\* returned, and exports_completed + exports_failed is the number of handler
\* invocations made.
C35_StatsCounts ==
  \A w \in Workers :
    worker[w].pc = "complete" =>
      LET me == worker[w]
      IN  /\ me.stats.sources_executed + SourcesFailed(me.stats)
               = Len(me.sources)
          /\ me.stats.invoices_extracted = Len(me.all_invoices)
          /\ me.stats.exports_completed + me.stats.exports_failed
               = Cardinality({i \in DOMAIN me.pairs :
                                ~ BuildContextRaises(me.pairs[i].invoice)})

\* C36: every Export Handler invoked for a job is for an export that belongs
\* to the job's automation and was active when the job loaded its
\* configuration, whatever the mappings of the store point to.
C36_HandlerOnlyForOwnActiveExport ==
  \A w \in Workers :
    (worker[w].pc = "record" /\ worker[w].invoked) =>
      LET me == worker[w]
          export_id == me.pairs[me.pi].export.id
      IN  \E i \in DOMAIN ExportTable :
            /\ ExportTable[i].id = export_id
            /\ ExportTable[i].automation_id = jobs[me.event.job_id].automation_id
            /\ ExportTable[i].active

\* the last handler invocation for an invoice of source 1, which has a
\* mapping to an export of another automation, has returned
C36_Witness ==
  \E w \in Workers :
    /\ worker[w].pc = "record"
    /\ worker[w].invoked
    /\ worker[w].pi = Len(worker[w].pairs)
    /\ worker[w].pairs[worker[w].pi].source.id = 1
    /\ \E i \in DOMAIN MappingTable, k \in DOMAIN ExportTable :
         /\ MappingTable[i].source_id = 1
         /\ MappingTable[i].export_id = ExportTable[k].id
         /\ ExportTable[k].active
         /\ ExportTable[k].automation_id
              # jobs[worker[w].event.job_id].automation_id

\* C37: once the payload of a job.started message has parsed into an event,
\* JobWorker's handler lets no exception escape: the delivery never ends in
\* a nak, it ends in the ack that takes the message off the stream, whether
\* the job completed or failed, so that no failed job is executed again by
\* redelivery of a nak'ed message.  msg.ack itself is taken not to raise.
C37_ParsedEventAcked ==
  [][\A w \in Workers :
       /\ worker'[w].payload = "event" => worker'[w].pc # "nak"
       /\ ( /\ worker[w].payload = "event"
            /\ worker[w].pc # "idle"
            /\ worker'[w].pc = "idle" )
          => /\ worker[w].pc = "ack"
             /\ worker[w].event \notin stream']_vars

\* a job has failed although an error occurred inside _fail_job, and its
\* message was acknowledged after the one delivery the bus made
C37_Witness ==
  /\ \E j \in JobIds : jobs[j].status = "failed"
  /\ faults = 1
  /\ deliveries = 1
  /\ stream = {}
  /\ bad = {}
  /\ \A w \in Workers : worker[w].pc = "idle"

\* C38: whenever the LocalStorage handler returns failed, in particular
\* when the source file does not exist, the call has changed nothing in the
\* destination tree: no directory was created and no file written.
C38_FailedLeavesTreeUnchanged ==
  [][\A c \in Callers :
       ( /\ call'[c] # call[c]
         /\ call'[c].handler = "LocalStorage"
         /\ call'[c].pc = "done"
         /\ call'[c].result.status = "failed" )
       => /\ dirs' = dirs
          /\ files' = files
          /\ copies' = copies]_vars
====
